---------------------------- MODULE Spec2Model ----------------------------
(***************************************************************************)
(* Model of src/src/ObjectStoreProviderUtils.ts: key extraction            *)
(* (getKeyForKeypath), key list normalisation (formListOfKeys) and the     *)
(* orderable string encoding of keys (serializeValueToOrderableString,     *)
(* serializeNumberToOrderableString, serializeKeyToString,                 *)
(* formListOfSerializedKeys).                                              *)
(*                                                                         *)
(* JavaScript values are tagged records:                                   *)
(*   number    [t |-> "number", k, n]  k = "finite": the value is n / 10   *)
(*                                     (n counts tenths), else k is "NaN", *)
(*                                     "Infinity" or "-Infinity"           *)
(*   Date      [t |-> "date", time]    time: the number getTime() returns  *)
(*   string    [t |-> "string", s]     s: the sequence of UTF-16 code units*)
(*   array     [t |-> "array", e]      e: the sequence of elements         *)
(*   object    [t |-> "object", f]     f: own properties, name -> value    *)
(*   boolean, null, undefined          [t |-> "boolean", b], [t |-> ...]   *)
(* A call either returns a value or throws.                                *)
(***************************************************************************)
EXTENDS Integers, Sequences, FiniteSets, TLC

VARIABLES fn,       \* the exported function the caller invokes
          keyPath,  \* its keyPath argument (Undefined when it takes none)
          arg,      \* the first argument of each call the caller makes
          ret       \* the outcome of each call: Pending, a return or a throw

vars == <<fn, keyPath, arg, ret>>

---------------------------------------------------------------------------
(* Bounds of the enumerated inputs.                                        *)

\* finite numbers are +-(h / 2) * 10^j for h in 1..MaxHalf, j in 0..MaxPow
MaxHalf == 4
MaxPow == 3
\* strings have at most MaxStrLen code units
MaxStrLen == 2
\* a batch of keys has at most MaxBatch entries
MaxBatch == 3

---------------------------------------------------------------------------
(* JavaScript values.                                                      *)

Num(n) == [t |-> "number", k |-> "finite", n |-> n]
NaN == [t |-> "number", k |-> "NaN", n |-> 0]
PosInfinity == [t |-> "number", k |-> "Infinity", n |-> 0]
NegInfinity == [t |-> "number", k |-> "-Infinity", n |-> 0]
DateOf(time) == [t |-> "date", time |-> time]
Str(s) == [t |-> "string", s |-> s]
Arr(e) == [t |-> "array", e |-> e]
Obj(f) == [t |-> "object", f |-> f]
Bool(b) == [t |-> "boolean", b |-> b]
Null == [t |-> "null"]
Undefined == [t |-> "undefined"]

\* lodash isArray, isDate, isNull, isUndefined; typeof
isArray(v) == v.t = "array"
isDate(v) == v.t = "date"
isNull(v) == v.t = "null"
isUndefined(v) == v.t = "undefined"
typeof(v) == IF v.t \in {"array", "date", "null"} THEN "object" ELSE v.t

\* the outcome of a call
Return(v) == [st |-> "return", err |-> "", val |-> v]
Throw(e) == [st |-> "throw", err |-> e, val |-> Undefined]
Pending == [st |-> "pending", err |-> "", val |-> Undefined]

---------------------------------------------------------------------------
(* Text: strings are sequences of code units; String(n) of a number.       *)

RECURSIVE Pow10(_)
Pow10(p) == IF p <= 0 THEN 1 ELSE 10 * Pow10(p - 1)

\* String(n) of an integer n >= 0: its decimal digits, as code units
RECURSIVE NatToString(_)
NatToString(n) ==
    IF n < 10 THEN <<48 + n>>
    ELSE Append(NatToString(n \div 10), 48 + (n % 10))

\* String(n) of an integer
IntToString(n) == IF n < 0 THEN <<45>> \o NatToString(-n) ELSE NatToString(n)

\* the p digits of f (0 <= f < 10^p), leading zeros kept
RECURSIVE FixedDigits(_, _)
FixedDigits(f, p) ==
    IF p = 0 THEN <<>>
    ELSE Append(FixedDigits(f \div 10, p - 1), 48 + (f % 10))

RECURSIVE StripTrailingZeros(_)
StripTrailingZeros(d) ==
    IF d # <<>> /\ d[Len(d)] = 48
    THEN StripTrailingZeros(SubSeq(d, 1, Len(d) - 1))
    ELSE d

\* String(x) of the number x = v / 10^p (v >= 0, p >= 0): the integer part,
\* then "." and the fraction digits when the fraction is not zero
DecimalToString(v, p) ==
    LET frac == StripTrailingZeros(FixedDigits(v % Pow10(p), p))
    IN NatToString(v \div Pow10(p)) \o (IF frac = <<>> THEN <<>> ELSE <<46>> \o frac)

\* String(n) of a zero, NaN or infinite number
SpecialToString(num) ==
    CASE num.k = "NaN" -> <<78, 97, 78>>
      [] num.k = "Infinity" -> <<73, 110, 102, 105, 110, 105, 116, 121>>
      [] num.k = "-Infinity" -> <<45, 73, 110, 102, 105, 110, 105, 116, 121>>
      [] OTHER -> <<48>>

---------------------------------------------------------------------------
(* Orderable scalar encoder.                                               *)

\* const zeroes = "0000000000000000"
zeroes == [i \in 1..16 |-> 48]

\* formatFixed(n, digits): String(n), zero-padded on the left to digits
\* characters when it is shorter (and the padding is below zeroes.length)
formatFixed(n, digits) ==
    LET result == IntToString(n)
        prefix == digits - Len(result)
    IN IF prefix > 0 /\ prefix < Len(zeroes)
       THEN SubSeq(zeroes, 1, prefix) \o result
       ELSE result

\* floor(log10(n / 10)) in exact arithmetic, for n >= 1 tenths
RECURSIVE ExactFloorLog10(_)
ExactFloorLog10(n) == IF n < 10 THEN -1 ELSE 1 + ExactFloorLog10(n \div 10)

\* The k for which the IEEE-754 double quotient Math.log(10^k) / Math.LN10
\* is just below k (10^3: 2.9999999999999996, 10^6: 5.999999999999999);
\* among the representable powers of ten these are the inexact ones.
InexactPowersOfTen == {3, 6}

\* Math.floor(Math.log(n) / Math.LN10) of the double n / 10: the exact
\* floor, except at the powers of ten whose quotient rounds below the integer
FloorLogOverLN10(n) ==
    LET e == ExactFloorLog10(n)
    IN IF e \in InexactPowersOfTen /\ n = Pow10(e + 1) THEN e - 1 ELSE e

\* serializeNumberToOrderableString(n): zero, NaN and the infinities by their
\* text; otherwise the biased exponent in four digits, then the mantissa
\* n / 10^exponent (a positive n) or its complement 10 - mantissa after "-"
\* (a negative n). The mantissa of n tenths is n / 10^(exponent + 1).
serializeNumberToOrderableString(num) ==
    IF num.k # "finite" \/ num.n = 0 THEN SpecialToString(num)
    ELSE LET isPositive == ~(num.n < 0)
             n == IF num.n < 0 THEN -num.n ELSE num.n
             exponent == FloorLogOverLN10(n)
             p == exponent + 1
         IN IF isPositive
            THEN formatFixed(1024 + exponent, 4) \o DecimalToString(n, p)
            ELSE <<45>> \o formatFixed(1024 - exponent, 4)
                        \o DecimalToString(10 * Pow10(p) - n, p)

\* mutant: a string is returned without its "C" tag
serializeValueToOrderableString_UntaggedString(val) ==
    IF typeof(val) = "number"
    THEN Return(Str(<<65>> \o serializeNumberToOrderableString(val)))
    ELSE IF isDate(val)
    THEN Return(Str(<<66>> \o serializeNumberToOrderableString(val.time)))
    ELSE IF typeof(val) = "string"
    THEN Return(Str(val.s))
    ELSE Throw("unsupported type")

\* mutant: a value of another type is coerced to a string instead of thrown
serializeValueToOrderableString_CoerceOther(val) ==
    IF typeof(val) = "number"
    THEN Return(Str(<<65>> \o serializeNumberToOrderableString(val)))
    ELSE IF isDate(val)
    THEN Return(Str(<<66>> \o serializeNumberToOrderableString(val.time)))
    ELSE IF typeof(val) = "string"
    THEN Return(Str(<<67>> \o val.s))
    ELSE Return(Str(<<67>>))

\* serializeValueToOrderableString(val): "A" + the number's encoding, "B" +
\* the encoding of a Date's getTime(), "C" + a string; throws otherwise
serializeValueToOrderableString(val) ==
    IF typeof(val) = "number"
    THEN Return(Str(<<65>> \o serializeNumberToOrderableString(val)))
    ELSE IF isDate(val)
    THEN Return(Str(<<66>> \o serializeNumberToOrderableString(val.time)))
    ELSE IF typeof(val) = "string"
    THEN Return(Str(<<67>> \o val.s))
    ELSE Throw("unsupported type")

---------------------------------------------------------------------------
(* Key path resolver.                                                      *)

\* arrayify(obj): obj when it is an array, else [obj]; the elements
arrayify(obj) == IF isArray(obj) THEN obj.e ELSE <<obj>>

\* lodash's path of a locator string: its property names, split at "."
RECURSIVE SplitPath(_, _)
SplitPath(s, cur) ==
    IF s = <<>> THEN <<cur>>
    ELSE IF Head(s) = 46 THEN <<cur>> \o SplitPath(Tail(s), <<>>)
    ELSE SplitPath(Tail(s), Append(cur, Head(s)))

\* lodash get along a path: undefined as soon as a step meets null,
\* undefined or a value without that property
RECURSIVE GetPath(_, _)
GetPath(obj, path) ==
    IF path = <<>> THEN obj
    ELSE IF obj.t = "object" /\ Head(path) \in DOMAIN obj.f
    THEN GetPath(obj.f[Head(path)], Tail(path))
    ELSE Undefined

\* getValueForSingleKeypath(obj, singleKeyPath): get(obj, singleKeyPath, undefined)
getValueForSingleKeypath(obj, singleKeyPath) ==
    GetPath(obj, SplitPath(singleKeyPath.s, <<>>))

\* isCompoundKeyPath(keyPath)
isCompoundKeyPath(kp) == isArray(kp) /\ Len(kp.e) > 1

\* mutant: only undefined components, not null ones, make the key undefined
getKeyForKeypath_UndefinedOnly(obj, keyPathRaw) ==
    LET keyPathArray == arrayify(keyPathRaw)
        values == [i \in 1..Len(keyPathArray) |->
                      getValueForSingleKeypath(obj, keyPathArray[i])]
    IN IF \E i \in 1..Len(values) : isUndefined(values[i])
       THEN Undefined
       ELSE IF ~isArray(keyPathRaw) THEN values[1] ELSE Arr(values)

\* getKeyForKeypath(obj, keyPathRaw): undefined when any locator resolves to
\* null or undefined; else values[0] for a non-array key path, values for an
\* array key path
getKeyForKeypath(obj, keyPathRaw) ==
    LET keyPathArray == arrayify(keyPathRaw)
        values == [i \in 1..Len(keyPathArray) |->
                      getValueForSingleKeypath(obj, keyPathArray[i])]
    IN IF \E i \in 1..Len(values) : isNull(values[i]) \/ isUndefined(values[i])
       THEN Undefined
       ELSE IF ~isArray(keyPathRaw) THEN values[1] ELSE Arr(values)

---------------------------------------------------------------------------
(* Key list normaliser and composite key serialiser.                       *)

\* const keypathJoinerString = "%&"
keypathJoinerString == <<37, 38>>

\* mutant: with a compound key path an array is returned as it is, whatever
\* its first element
formListOfKeys_NoSingleKeyWrap(keyOrKeys, kp) ==
    IF isCompoundKeyPath(kp)
    THEN IF ~isArray(keyOrKeys)
         THEN Throw("formListOfKeys called with a compound keypath but a non-compound keyOrKeys")
         ELSE Return(keyOrKeys)
    ELSE Return(Arr(arrayify(keyOrKeys)))

\* formListOfKeys(keyOrKeys, keyPath): with a compound key path, throws on a
\* non-array, wraps an array whose element 0 is not an array, and returns an
\* array of arrays as it is; otherwise arrayify(keyOrKeys)
formListOfKeys(keyOrKeys, kp) ==
    IF isCompoundKeyPath(kp)
    THEN IF ~isArray(keyOrKeys)
         THEN Throw("formListOfKeys called with a compound keypath but a non-compound keyOrKeys")
         ELSE IF ~isArray(IF keyOrKeys.e = <<>> THEN Undefined ELSE keyOrKeys.e[1])
         THEN Return(Arr(<<keyOrKeys>>))
         ELSE Return(keyOrKeys)
    ELSE Return(Arr(arrayify(keyOrKeys)))

\* map(list, f) for a callback that may throw: the outcomes of the calls up
\* to and including the first throw, which ends the map
RECURSIVE MapUntilThrow(_, _)
MapUntilThrow(outcomes, done) ==
    IF outcomes = <<>> THEN Return(Arr(done))
    ELSE IF Head(outcomes).st = "throw" THEN Head(outcomes)
    ELSE MapUntilThrow(Tail(outcomes), Append(done, Head(outcomes).val))

\* Array.prototype.join of an array of strings
RECURSIVE Join(_, _)
Join(strs, sep) ==
    IF strs = <<>> THEN <<>>
    ELSE IF Len(strs) = 1 THEN strs[1].s
    ELSE strs[1].s \o sep \o Join(Tail(strs), sep)

\* mutant: with a compound key path a non-array key is encoded as a key of
\* one component instead of thrown
serializeKeyToString_ArrayifiedKey(key, kp) ==
    IF isCompoundKeyPath(kp)
    THEN LET comps == arrayify(key)
             parts == MapUntilThrow(
                 [i \in 1..Len(comps) |-> serializeValueToOrderableString(comps[i])],
                 <<>>)
         IN IF parts.st = "throw" THEN parts
            ELSE Return(Str(Join(parts.val.e, keypathJoinerString)))
    ELSE IF isArray(key)
         THEN Throw("serializeKeyToString called with a non-compound keypath but a compound key")
         ELSE serializeValueToOrderableString(key)

\* serializeKeyToString(key, keyPath): with a compound key path the encoded
\* components of an array key joined by keypathJoinerString (a non-array key
\* throws); otherwise the encoding of a non-array key (an array key throws)
serializeKeyToString(key, kp) ==
    IF isCompoundKeyPath(kp)
    THEN IF isArray(key)
         THEN LET parts == MapUntilThrow(
                      [i \in 1..Len(key.e) |-> serializeValueToOrderableString(key.e[i])],
                      <<>>)
              IN IF parts.st = "throw" THEN parts
                 ELSE Return(Str(Join(parts.val.e, keypathJoinerString)))
         ELSE Throw("serializeKeyToString called with a compound keypath but a non-compound key")
    ELSE IF isArray(key)
         THEN Throw("serializeKeyToString called with a non-compound keypath but a compound key")
         ELSE serializeValueToOrderableString(key)

\* mutant: the encoded keys come out in reverse order
formListOfSerializedKeys_Reversed(keyOrKeys, kp) ==
    LET keys == formListOfKeys(keyOrKeys, kp)
    IN IF keys.st = "throw" THEN keys
       ELSE MapUntilThrow(
                [i \in 1..Len(keys.val.e) |->
                    serializeKeyToString(keys.val.e[Len(keys.val.e) + 1 - i], kp)],
                <<>>)

\* formListOfSerializedKeys(keyOrKeys, keyPath):
\* map(formListOfKeys(keyOrKeys, keyPath), key => serializeKeyToString(key, keyPath))
formListOfSerializedKeys(keyOrKeys, kp) ==
    LET keys == formListOfKeys(keyOrKeys, kp)
    IN IF keys.st = "throw" THEN keys
       ELSE MapUntilThrow(
                [i \in 1..Len(keys.val.e) |-> serializeKeyToString(keys.val.e[i], kp)],
                <<>>)

\* getSerializedKeyForKeypath(obj, keyPathRaw): undefined when
\* getKeyForKeypath gives undefined, else serializeKeyToString of the key
getSerializedKeyForKeypath(obj, keyPathRaw) ==
    LET values == getKeyForKeypath(obj, keyPathRaw)
    IN IF isUndefined(values) THEN Return(Undefined)
       ELSE serializeKeyToString(values, keyPathRaw)

---------------------------------------------------------------------------
(* The inputs a caller passes.                                             *)

SeqsUpTo(S, n) == UNION {[1..k -> S] : k \in 0..n}

\* finite numbers, in tenths: zero and +-(h / 2) * 10^j
HalfTenths == {h * 5 * Pow10(j) : h \in 1..MaxHalf, j \in 0..MaxPow}
FiniteNumbers == {Num(0)} \cup {Num(v) : v \in HalfTenths} \cup {Num(-v) : v \in HalfTenths}
Numbers == FiniteNumbers \cup {NaN, PosInfinity, NegInfinity}

\* Dates: getTime() is a whole number of milliseconds, or NaN (an invalid Date)
Dates == {DateOf(x) : x \in {y \in FiniteNumbers : y.n % 10 = 0}} \cup {DateOf(NaN)}

\* strings over "!", "%", "a"
StrChars == {33, 37, 97}
Strings == {Str(s) : s \in SeqsUpTo(StrChars, MaxStrLen)}

\* values that are no number, Date or string
Unsupported == {Bool(TRUE), Null, Undefined, Obj(<<>>), Arr(<<>>)}

Values == Numbers \cup Dates \cup Strings \cup Unsupported

\* field locators "a", "b", "c.d", "z"
LocatorList == <<Str(<<97>>), Str(<<98>>), Str(<<99, 46, 100>>), Str(<<122>>)>>
KeyPaths ==
    {LocatorList[i] : i \in 1..Len(LocatorList)}
    \cup {Arr(SubSeq(LocatorList, 1, n)) : n \in 0..Len(LocatorList)}

\* records {a, b, c: {d}}; "z" is never a property
FieldVals == {Undefined, Null, Num(10), Str(<<97>>), DateOf(Num(0))}
Records ==
    {Obj((<<97>> :> a) @@ (<<98>> :> b) @@ (<<99>> :> c)) :
        a \in FieldVals, b \in FieldVals,
        c \in {Undefined, Null, Num(10)} \cup {Obj(<<100>> :> d) : d \in FieldVals}}

\* key components: 1, 200, 1000, a Date, "a", "a!", "b%&Ca", "a%&Cb"
KeyComps ==
    {Num(10), Num(2000), Num(10000), DateOf(Num(0)), Str(<<97>>), Str(<<97, 33>>),
     Str(<<98, 37, 38, 67, 97>>), Str(<<97, 37, 38, 67, 98>>)}
\* keys: a component or unsupported value, or an array of up to three of them
Keys ==
    KeyComps \cup Unsupported
    \cup {Arr(e) : e \in SeqsUpTo(KeyComps \cup {Bool(TRUE)}, 3)}
\* pairs of arity-2 keys, to compare their encodings
KeyPairs == {<<Arr(<<a, b>>), Arr(<<c, d>>)>> : a \in KeyComps, b \in KeyComps,
                                                c \in KeyComps, d \in KeyComps}

\* batches: a key, or a list of up to MaxBatch keys
BatchElements ==
    {Num(10), Num(20), Bool(TRUE)}
    \cup {Arr(<<>>), Arr(<<Num(10)>>), Arr(<<Num(10), Num(20)>>), Arr(<<Num(20), Num(10)>>),
          Arr(<<Num(10), Bool(TRUE)>>)}
KeyOrKeys == BatchElements \cup {Arr(e) : e \in SeqsUpTo(BatchElements, MaxBatch)}

---------------------------------------------------------------------------
(* The caller: it picks a function and arguments, and makes each call.     *)

Init ==
    /\ ret \in {<<Pending>>, <<Pending, Pending>>}
    /\ \/ /\ fn = "serializeValueToOrderableString"
          /\ keyPath = Undefined
          /\ Len(ret) = 2
          /\ arg \in Values \X Values
       \/ /\ fn = "serializeKeyToString"
          /\ keyPath \in KeyPaths
          /\ \/ Len(ret) = 1 /\ arg \in {<<k>> : k \in Keys}
             \/ Len(ret) = 2 /\ keyPath = Arr(SubSeq(LocatorList, 1, 2)) /\ arg \in KeyPairs
       \/ /\ fn \in {"getKeyForKeypath", "getSerializedKeyForKeypath"}
          /\ keyPath \in KeyPaths
          /\ Len(ret) = 1
          /\ arg \in {<<r>> : r \in Records}
       \/ /\ fn \in {"formListOfKeys", "formListOfSerializedKeys"}
          /\ keyPath \in KeyPaths
          /\ Len(ret) = 1
          /\ arg \in {<<k>> : k \in KeyOrKeys}

CallSerializeValueToOrderableString(i) ==
    /\ fn = "serializeValueToOrderableString"
    /\ i \in DOMAIN ret /\ ret[i] = Pending
    /\ ret' = [ret EXCEPT ![i] = serializeValueToOrderableString(arg[i])]
    /\ UNCHANGED <<fn, keyPath, arg>>

CallSerializeKeyToString(i) ==
    /\ fn = "serializeKeyToString"
    /\ i \in DOMAIN ret /\ ret[i] = Pending
    /\ ret' = [ret EXCEPT ![i] = serializeKeyToString(arg[i], keyPath)]
    /\ UNCHANGED <<fn, keyPath, arg>>

CallGetKeyForKeypath(i) ==
    /\ fn = "getKeyForKeypath"
    /\ i \in DOMAIN ret /\ ret[i] = Pending
    /\ ret' = [ret EXCEPT ![i] = Return(getKeyForKeypath(arg[i], keyPath))]
    /\ UNCHANGED <<fn, keyPath, arg>>

CallGetSerializedKeyForKeypath(i) ==
    /\ fn = "getSerializedKeyForKeypath"
    /\ i \in DOMAIN ret /\ ret[i] = Pending
    /\ ret' = [ret EXCEPT ![i] = getSerializedKeyForKeypath(arg[i], keyPath)]
    /\ UNCHANGED <<fn, keyPath, arg>>

CallFormListOfKeys(i) ==
    /\ fn = "formListOfKeys"
    /\ i \in DOMAIN ret /\ ret[i] = Pending
    /\ ret' = [ret EXCEPT ![i] = formListOfKeys(arg[i], keyPath)]
    /\ UNCHANGED <<fn, keyPath, arg>>

CallFormListOfSerializedKeys(i) ==
    /\ fn = "formListOfSerializedKeys"
    /\ i \in DOMAIN ret /\ ret[i] = Pending
    /\ ret' = [ret EXCEPT ![i] = formListOfSerializedKeys(arg[i], keyPath)]
    /\ UNCHANGED <<fn, keyPath, arg>>

Next ==
    \E i \in 1..2 :
        \/ CallSerializeValueToOrderableString(i)
        \/ CallSerializeKeyToString(i)
        \/ CallGetKeyForKeypath(i)
        \/ CallGetSerializedKeyForKeypath(i)
        \/ CallFormListOfKeys(i)
        \/ CallFormListOfSerializedKeys(i)

Spec == Init /\ [][Next]_vars

---------------------------------------------------------------------------
(* Vocabulary of the properties.                                           *)

Done(i) == i \in DOMAIN ret /\ ret[i].st # "pending"
Returned(i) == i \in DOMAIN ret /\ ret[i].st = "return"
Threw(i) == i \in DOMAIN ret /\ ret[i].st = "throw"
ReturnedString(i) == Returned(i) /\ ret[i].val.t = "string"

\* s1 < s2 of two strings, as JavaScript and an index compare them: code
\* unit by code unit, a proper prefix first
RECURSIVE StrLess(_, _)
StrLess(a, b) ==
    IF b = <<>> THEN FALSE
    ELSE IF a = <<>> THEN TRUE
    ELSE IF Head(a) # Head(b) THEN Head(a) < Head(b)
    ELSE StrLess(Tail(a), Tail(b))

IsSupported(v) == v.t \in {"number", "date", "string"}
IsFiniteNumber(v) == v.t = "number" /\ v.k = "finite"

\* the natural order of key components: number < date < string, then the
\* order within the type (numbers and Dates by value, strings by code units)
TypeRank(v) == CASE v.t = "number" -> 1 [] v.t = "date" -> 2 [] OTHER -> 3
ComponentPrecedes(a, b) ==
    \/ TypeRank(a) < TypeRank(b)
    \/ /\ a.t = "number" /\ b.t = "number" /\ a.n < b.n
    \/ /\ a.t = "date" /\ b.t = "date" /\ a.time.n < b.time.n
    \/ /\ a.t = "string" /\ b.t = "string" /\ StrLess(a.s, b.s)

\* the first differing component decides
RECURSIVE KeyPrecedes(_, _)
KeyPrecedes(k1, k2) ==
    IF k1 = <<>> \/ k2 = <<>> THEN FALSE
    ELSE IF Head(k1) # Head(k2) THEN ComponentPrecedes(Head(k1), Head(k2))
    ELSE KeyPrecedes(Tail(k1), Tail(k2))

RECURSIVE HasUnsupportedComponent(_)
HasUnsupportedComponent(v) ==
    IF isArray(v) THEN \E i \in 1..Len(v.e) : HasUnsupportedComponent(v.e[i])
    ELSE ~IsSupported(v)

---------------------------------------------------------------------------
(* C1: for a compound key path and two keys of its arity whose components  *)
(* are numbers, dates or strings, the encoding of the first is below the   *)
(* encoding of the second exactly when the first key precedes the second   *)
(* component-wise; so distinct keys have distinct encodings.               *)
C1_CompoundOrderIsLexicographic ==
    (/\ fn = "serializeKeyToString" /\ Len(ret) = 2
     /\ Done(1) /\ Done(2))
    => /\ ReturnedString(1) /\ ReturnedString(2)
       /\ StrLess(ret[1].val.s, ret[2].val.s) <=> KeyPrecedes(arg[1].e, arg[2].e)
       /\ (arg[1] # arg[2] => ret[1].val.s # ret[2].val.s)

(* C2: for finite numbers a < b the encoding of a is below the encoding of *)
(* b.                                                                      *)
C2_NumberOrderPreserved ==
    (/\ fn = "serializeValueToOrderableString"
     /\ Done(1) /\ Done(2)
     /\ IsFiniteNumber(arg[1]) /\ IsFiniteNumber(arg[2])
     /\ arg[1].n < arg[2].n)
    => /\ ReturnedString(1) /\ ReturnedString(2)
       /\ StrLess(ret[1].val.s, ret[2].val.s)

(* C3: with a compound key path of arity n, serializeKeyToString returns   *)
(* only for an array key of exactly n components; an array of any other    *)
(* length throws.                                                          *)
C3_CompoundArityEnforced ==
    (/\ fn = "serializeKeyToString" /\ isCompoundKeyPath(keyPath)
     /\ Returned(1))
    => isArray(arg[1]) /\ Len(arg[1].e) = Len(keyPath.e)

(* C4: serializeKeyToString throws, and returns no string, when the key    *)
(* path is compound and the key is no array, and when the key path is not  *)
(* compound and the key is an array.                                       *)
C4_ShapeMismatchThrows ==
    \A i \in 1..2 :
        (/\ fn = "serializeKeyToString" /\ Done(i)
         /\ isCompoundKeyPath(keyPath) # isArray(arg[i]))
        => Threw(i)

C4_Witness ==
    /\ fn = "serializeKeyToString"
    /\ isCompoundKeyPath(keyPath) /\ ~isArray(arg[1]) /\ IsSupported(arg[1])
    /\ Threw(1)

(* C5: getKeyForKeypath returns undefined when any locator of the key path *)
(* resolves to null or undefined; otherwise the resolved value for a plain *)
(* string key path, and the list of the resolved values, in the key path's *)
(* order, for a list key path. No returned list holds null or undefined.   *)
C5_ExtractionTotalOrUndefined ==
    (fn = "getKeyForKeypath" /\ Done(1)) =>
        LET locs == IF isArray(keyPath) THEN keyPath.e ELSE <<keyPath>>
            missing == \E i \in 1..Len(locs) :
                           getValueForSingleKeypath(arg[1], locs[i]).t \in {"null", "undefined"}
            got == ret[1].val
        IN /\ Returned(1)
           /\ missing => got = Undefined
           /\ (~missing /\ ~isArray(keyPath)) => got = getValueForSingleKeypath(arg[1], keyPath)
           /\ (~missing /\ isArray(keyPath)) =>
                  /\ isArray(got) /\ Len(got.e) = Len(locs)
                  /\ \A i \in 1..Len(locs) : got.e[i] = getValueForSingleKeypath(arg[1], locs[i])
           /\ isArray(got) => \A i \in 1..Len(got.e) : got.e[i].t \notin {"null", "undefined"}

\* a compound key path whose first locator resolves and whose second is
\* null: nothing partial is returned
C5_Witness ==
    /\ fn = "getKeyForKeypath" /\ Returned(1)
    /\ isCompoundKeyPath(keyPath)
    /\ IsSupported(getValueForSingleKeypath(arg[1], keyPath.e[1]))
    /\ isNull(getValueForSingleKeypath(arg[1], keyPath.e[2]))
    /\ ret[1].val = Undefined

\* the keys a caller supplies: with a compound key path a single key is an
\* array whose first element is no array, and a list of keys an array of
\* arrays (the empty array being the list of no keys); with a simple key
\* path an array is a list of keys and anything else a single key
KeysSupplied(keyOrKeys, kp) ==
    IF isCompoundKeyPath(kp)
    THEN IF keyOrKeys.e # <<>> /\ ~isArray(keyOrKeys.e[1]) THEN <<keyOrKeys>> ELSE keyOrKeys.e
    ELSE IF isArray(keyOrKeys) THEN keyOrKeys.e ELSE <<keyOrKeys>>

C7_KeyListNormalization ==
    (fn = "formListOfKeys" /\ Done(1)) =>
        LET x == arg[1]
            firstIsArray == isArray(x) /\ x.e # <<>> /\ isArray(x.e[1])
        IN IF isCompoundKeyPath(keyPath)
           THEN /\ ~isArray(x) => Threw(1)
                /\ (isArray(x) /\ ~firstIsArray) => ret[1] = Return(Arr(<<x>>))
                /\ firstIsArray => ret[1] = Return(x)
           ELSE /\ isArray(x) => ret[1] = Return(x)
                /\ ~isArray(x) => ret[1] = Return(Arr(<<x>>))

\* the single compound key [1, 2] becomes [[1, 2]]
C7_Witness ==
    /\ fn = "formListOfKeys" /\ isCompoundKeyPath(keyPath)
    /\ arg[1] = Arr(<<Num(10), Num(20)>>)
    /\ ret[1] = Return(Arr(<<Arr(<<Num(10), Num(20)>>)>>))

(* C8: for any number n (zero, NaN and the infinities included), any date  *)
(* d and any string s (the empty one included), the encoding of n is below *)
(* the encoding of d, which is below the encoding of s.                    *)
C8_CrossTypeOrdering ==
    (fn = "serializeValueToOrderableString" /\ Done(1) /\ Done(2)) =>
        ((\/ arg[1].t = "number" /\ arg[2].t \in {"date", "string"}
          \/ arg[1].t = "date" /\ arg[2].t = "string")
         => /\ ReturnedString(1) /\ ReturnedString(2)
            /\ StrLess(ret[1].val.s, ret[2].val.s))

\* an invalid Date (getTime() is NaN) against the empty string
C8_Witness ==
    /\ fn = "serializeValueToOrderableString"
    /\ arg[1] = DateOf(NaN) /\ arg[2] = Str(<<>>)
    /\ ReturnedString(1) /\ ReturnedString(2)

(* C9: serializeValueToOrderableString throws for every value that is no   *)
(* number, Date or string, and serializeKeyToString and                    *)
(* formListOfSerializedKeys throw, returning nothing, when a component of  *)
(* their input is such a value.                                            *)
C9_UnsupportedTypeRejected ==
    \A i \in 1..2 :
        (/\ fn \in {"serializeValueToOrderableString", "serializeKeyToString",
                    "formListOfSerializedKeys"}
         /\ Done(i)
         /\ IF fn = "serializeValueToOrderableString"
            THEN ~IsSupported(arg[i])
            ELSE HasUnsupportedComponent(arg[i]))
        => Threw(i)

\* a batch whose first key encodes and whose second is a boolean: no
\* partial result
C9_Witness ==
    /\ fn = "formListOfSerializedKeys" /\ Threw(1)
    /\ ~isCompoundKeyPath(keyPath)
    /\ isArray(arg[1]) /\ Len(arg[1].e) = 2
    /\ IsSupported(arg[1].e[1]) /\ arg[1].e[2] = Bool(TRUE)
    /\ ret[1].err = "unsupported type"

(* C10: for a key path that is a plain string, a one-element list or a     *)
(* list of two or more locators, getSerializedKeyForKeypath returns a      *)
(* string on every record on which all locators resolve to numbers, dates  *)
(* or strings, returns undefined exactly when getKeyForKeypath does, and   *)
(* never throws a shape mismatch.                                          *)
C10_ExtractThenEncodeNeverShapeFails ==
    (/\ fn = "getSerializedKeyForKeypath" /\ Done(1)
     /\ keyPath # Arr(<<>>))
    => LET locs == IF isArray(keyPath) THEN keyPath.e ELSE <<keyPath>>
       IN /\ (\A i \in 1..Len(locs) : IsSupported(getValueForSingleKeypath(arg[1], locs[i])))
                 => ReturnedString(1)
          /\ ret[1] = Return(Undefined) <=> getKeyForKeypath(arg[1], keyPath) = Undefined
          /\ ret[1].err \notin
                 {"serializeKeyToString called with a compound keypath but a non-compound key",
                  "serializeKeyToString called with a non-compound keypath but a compound key"}

=============================================================================
